---- MODULE Spec2Model ----
(***************************************************************************)
(* Model of the maze generation engine of src/src/maze.rs: the packed      *)
(* cell flags, the flat cell store addressed by x + y*width, the cursor,   *)
(* the backtracking tail, and the operations Maze::new / Maze::from_seed,  *)
(* Maze::gen_step and Maze::generate.                                      *)
(*                                                                         *)
(* The pseudo-random generator is modelled by its only use: the outcome   *)
(* of next_pos.shuffle(..), an arbitrary permutation of the four           *)
(* directions chosen afresh on every gen_step call.                        *)
(***************************************************************************)
EXTENDS Integers, Sequences, FiniteSets, TLC

\* ------------------------------------------------------------------ bounds
MaxW == 3
MaxH == 3
MaxLimit == 3
MaxAfter == 2

\* the grid of scenario C
ScenarioC == <<5, 5>>

\* Saturation value of the history counter `calls`; above 2*width*height
\* for every grid of the model.
CallCap == 2 * (MaxW + 1) * (MaxH + 1) + 2 * ScenarioC[1] * ScenarioC[2]

\* ------------------------------------------------------------- data model
Directions == {"Left", "Right", "Top", "Bottom"}

\* Option<Direction>::None, the initial value of dest
NoDir == "None"

\* Option<usize>::None, the `limit` of an unbounded generate
NoLimit == -1

\* outcome of a panicking operation (index out of bounds, usize underflow)
Panic == "Panic"

\* every outcome of next_pos.shuffle(&mut self.rng)
Perms ==
    {
     <<"Left", "Right", "Top", "Bottom">>, <<"Left", "Right", "Bottom", "Top">>, <<"Left", "Top", "Right", "Bottom">>,
     <<"Left", "Top", "Bottom", "Right">>, <<"Left", "Bottom", "Right", "Top">>, <<"Left", "Bottom", "Top", "Right">>,
     <<"Right", "Left", "Top", "Bottom">>, <<"Right", "Left", "Bottom", "Top">>, <<"Right", "Top", "Left", "Bottom">>,
     <<"Right", "Top", "Bottom", "Left">>, <<"Right", "Bottom", "Left", "Top">>, <<"Right", "Bottom", "Top", "Left">>,
     <<"Top", "Left", "Right", "Bottom">>, <<"Top", "Left", "Bottom", "Right">>, <<"Top", "Right", "Left", "Bottom">>,
     <<"Top", "Right", "Bottom", "Left">>, <<"Top", "Bottom", "Left", "Right">>, <<"Top", "Bottom", "Right", "Left">>,
     <<"Bottom", "Left", "Right", "Top">>, <<"Bottom", "Left", "Top", "Right">>, <<"Bottom", "Right", "Left", "Top">>,
     <<"Bottom", "Right", "Top", "Left">>, <<"Bottom", "Top", "Left", "Right">>, <<"Bottom", "Top", "Right", "Left">>}

Position(x, y) == [x |-> x, y |-> y]

\* MazeCell::new() followed by set_bottom(true), set_right(true)
DefaultCell == [visited |-> FALSE, right |-> TRUE, bottom |-> TRUE]

get_cell_offset(w, x, y) == x + y * w

\* vec![default_cell; width * height], indexed from 0
NewCells(w, h) == [o \in 0..(w * h - 1) |-> DefaultCell]

\* Vec indexing is bounds-checked
InStore(cs, off) == off \in DOMAIN cs

\* Maze::get_cell: self.cells[self.get_cell_offset(x, y)], a copy of the
\* cell at the computed offset, or a panic when the offset is outside the
\* store. The coordinates themselves are not compared with width / height.
get_cell(w, cs, x, y) ==
    LET off == get_cell_offset(w, x, y)
    IN  IF InStore(cs, off)
        THEN [status |-> "ok", cell |-> cs[off]]
        ELSE [status |-> Panic, cell |-> DefaultCell]

\* ------------------------------------------------------ Direction::apply
\* A coordinate below 0 stands for the usize underflow of `-= 1`.
Apply(dir, pos) ==
    CASE dir = "Top" -> Position(pos.x, pos.y - 1)
      [] dir = "Right" -> Position(pos.x + 1, pos.y)
      [] dir = "Left" -> Position(pos.x - 1, pos.y)
      [] dir = "Bottom" -> Position(pos.x, pos.y + 1)

\* --------------------------------------------- gen_step: direction scan
\* The candidate test of one direction: "skip" (continue), "take" (dest =
\* Some(dir); break) or Panic (get_cell indexes outside the store).
Probe(w, cs, pos) ==
    LET off == get_cell_offset(w, pos.x, pos.y)
    IN  IF ~InStore(cs, off) THEN Panic
        ELSE IF cs[off].visited THEN "skip" ELSE "take"

\* variant: the Top case never yields a candidate
TryDir_NoTop(w, h, cs, cur, dir) ==
    CASE dir = "Bottom" ->
           IF cur.y >= h - 1 THEN "skip" ELSE Probe(w, cs, Position(cur.x, cur.y + 1))
      [] dir = "Left" ->
           IF cur.x = 0 THEN "skip" ELSE Probe(w, cs, Position(cur.x - 1, cur.y))
      [] dir = "Right" ->
           IF cur.x >= w - 1 THEN "skip" ELSE Probe(w, cs, Position(cur.x + 1, cur.y))
      [] dir = "Top" -> "skip"

\* variant: the Right bound test is off by one (x > width - 1)
TryDir_RightOffByOne(w, h, cs, cur, dir) ==
    CASE dir = "Bottom" ->
           IF cur.y >= h - 1 THEN "skip" ELSE Probe(w, cs, Position(cur.x, cur.y + 1))
      [] dir = "Left" ->
           IF cur.x = 0 THEN "skip" ELSE Probe(w, cs, Position(cur.x - 1, cur.y))
      [] dir = "Right" ->
           IF cur.x > w - 1 THEN "skip" ELSE Probe(w, cs, Position(cur.x + 1, cur.y))
      [] dir = "Top" ->
           IF cur.y = 0 THEN "skip" ELSE Probe(w, cs, Position(cur.x, cur.y - 1))

\* variant: the Bottom bound test is off by one (y > height - 1)
TryDir_BottomOffByOne(w, h, cs, cur, dir) ==
    CASE dir = "Bottom" ->
           IF cur.y > h - 1 THEN "skip" ELSE Probe(w, cs, Position(cur.x, cur.y + 1))
      [] dir = "Left" ->
           IF cur.x = 0 THEN "skip" ELSE Probe(w, cs, Position(cur.x - 1, cur.y))
      [] dir = "Right" ->
           IF cur.x >= w - 1 THEN "skip" ELSE Probe(w, cs, Position(cur.x + 1, cur.y))
      [] dir = "Top" ->
           IF cur.y = 0 THEN "skip" ELSE Probe(w, cs, Position(cur.x, cur.y - 1))

TryDir(w, h, cs, cur, dir) ==
    CASE dir = "Bottom" ->
           IF cur.y >= h - 1 THEN "skip" ELSE Probe(w, cs, Position(cur.x, cur.y + 1))
      [] dir = "Left" ->
           IF cur.x = 0 THEN "skip" ELSE Probe(w, cs, Position(cur.x - 1, cur.y))
      [] dir = "Right" ->
           IF cur.x >= w - 1 THEN "skip" ELSE Probe(w, cs, Position(cur.x + 1, cur.y))
      [] dir = "Top" ->
           IF cur.y = 0 THEN "skip" ELSE Probe(w, cs, Position(cur.x, cur.y - 1))

\* The four candidate tests in the state the loop runs in (the loop body
\* changes nothing but dest, so each test has one value per call).
Tests(w, h, cs, cur) ==
    [Left |-> TryDir(w, h, cs, cur, "Left"),
     Right |-> TryDir(w, h, cs, cur, "Right"),
     Top |-> TryDir(w, h, cs, cur, "Top"),
     Bottom |-> TryDir(w, h, cs, cur, "Bottom")]

\* for dir in next_pos.iter() { .. } from the i-th entry on: the first
\* direction taken, NoDir when every direction is skipped, Panic when a
\* probe panics first.
RECURSIVE ScanFrom(_, _, _)
ScanFrom(t, perm, i) ==
    IF i > Len(perm) THEN NoDir
    ELSE IF t[perm[i]] = "skip" THEN ScanFrom(t, perm, i + 1)
    ELSE IF t[perm[i]] = "take" THEN perm[i]
    ELSE Panic

Scan(w, h, cs, cur, perm) == ScanFrom(Tests(w, h, cs, cur), perm, 1)

\* The values dest can have after the loop, over every shuffle outcome.
ScanOutcomes(w, h, cs, cur) ==
    LET t == Tests(w, h, cs, cur)
    IN  {ScanFrom(t, perm, 1) : perm \in Perms}

\* ------------------------------------------------ gen_step: forward move
\* The cell whose wall flag the move clears: the current cell for Bottom
\* and Right (flag cleared before apply), the new cell for Top and Left
\* (flag cleared after apply).
\* variant: every move clears the flag of the cell it leaves
WallOwner_Current(dir, cur) == cur

WallOwner(dir, cur) ==
    IF dir \in {"Bottom", "Right"} THEN cur ELSE Apply(dir, cur)

\* The flag that is cleared: bottom for Bottom/Top, right for Right/Left.
WallFlag(dir) ==
    IF dir \in {"Bottom", "Top"} THEN "bottom" ELSE "right"

\* variant: both wall flags of the owning cell are cleared
ClearWall_Both(cell, flag) == [cell EXCEPT !.bottom = FALSE, !.right = FALSE]

ClearWall(cell, flag) ==
    IF flag = "bottom" THEN [cell EXCEPT !.bottom = FALSE]
    ELSE [cell EXCEPT !.right = FALSE]

\* variant: the destination is not pushed onto the tail
Forward_NoPush(w, cs, cur, tl, dir) ==
    LET new == Apply(dir, cur)
        own == WallOwner(dir, cur)
        ownOff == get_cell_offset(w, own.x, own.y)
        newOff == get_cell_offset(w, new.x, new.y)
    IN  IF new.x < 0 \/ new.y < 0 \/ ~InStore(cs, ownOff) \/ ~InStore(cs, newOff)
        THEN [cells |-> cs, cursor |-> cur, tail |-> tl, ret |-> FALSE,
              dest |-> dir, panic |-> TRUE]
        ELSE LET cs1 == [cs EXCEPT ![ownOff] = ClearWall(cs[ownOff], WallFlag(dir))]
                 cs2 == [cs1 EXCEPT ![newOff].visited = TRUE]
             IN  [cells |-> cs2, cursor |-> new, tail |-> tl,
                  ret |-> FALSE, dest |-> dir, panic |-> FALSE]

\* variant: the position the move leaves is pushed onto the tail
Forward_PushOld(w, cs, cur, tl, dir) ==
    LET new == Apply(dir, cur)
        own == WallOwner(dir, cur)
        ownOff == get_cell_offset(w, own.x, own.y)
        newOff == get_cell_offset(w, new.x, new.y)
    IN  IF new.x < 0 \/ new.y < 0 \/ ~InStore(cs, ownOff) \/ ~InStore(cs, newOff)
        THEN [cells |-> cs, cursor |-> cur, tail |-> tl, ret |-> FALSE,
              dest |-> dir, panic |-> TRUE]
        ELSE LET cs1 == [cs EXCEPT ![ownOff] = ClearWall(cs[ownOff], WallFlag(dir))]
                 cs2 == [cs1 EXCEPT ![newOff].visited = TRUE]
             IN  [cells |-> cs2, cursor |-> new, tail |-> Append(tl, cur),
                  ret |-> FALSE, dest |-> dir, panic |-> FALSE]

\* variant: the destination is not marked visited
Forward_NoVisit(w, cs, cur, tl, dir) ==
    LET new == Apply(dir, cur)
        own == WallOwner(dir, cur)
        ownOff == get_cell_offset(w, own.x, own.y)
        newOff == get_cell_offset(w, new.x, new.y)
    IN  IF new.x < 0 \/ new.y < 0 \/ ~InStore(cs, ownOff) \/ ~InStore(cs, newOff)
        THEN [cells |-> cs, cursor |-> cur, tail |-> tl, ret |-> FALSE,
              dest |-> dir, panic |-> TRUE]
        ELSE LET cs1 == [cs EXCEPT ![ownOff] = ClearWall(cs[ownOff], WallFlag(dir))]
                 cs2 == cs1
             IN  [cells |-> cs2, cursor |-> new, tail |-> Append(tl, new),
                  ret |-> FALSE, dest |-> dir, panic |-> FALSE]

\* match dest { Some(dir) => { .. } }
Forward(w, cs, cur, tl, dir) ==
    LET new == Apply(dir, cur)
        own == WallOwner(dir, cur)
        ownOff == get_cell_offset(w, own.x, own.y)
        newOff == get_cell_offset(w, new.x, new.y)
    IN  IF new.x < 0 \/ new.y < 0 \/ ~InStore(cs, ownOff) \/ ~InStore(cs, newOff)
        THEN [cells |-> cs, cursor |-> cur, tail |-> tl, ret |-> FALSE,
              dest |-> dir, panic |-> TRUE]
        ELSE LET cs1 == [cs EXCEPT ![ownOff] = ClearWall(cs[ownOff], WallFlag(dir))]
                 cs2 == [cs1 EXCEPT ![newOff].visited = TRUE]
             IN  [cells |-> cs2, cursor |-> new, tail |-> Append(tl, new),
                  ret |-> FALSE, dest |-> dir, panic |-> FALSE]

\* ---------------------------------------------------- gen_step: dead end
\* variant: the top of the tail is read but not removed
Backtrack_NoShrink(cs, cur, tl) ==
    IF Len(tl) = 0
    THEN [cells |-> cs, cursor |-> cur, tail |-> tl, ret |-> TRUE,
          dest |-> NoDir, panic |-> FALSE]
    ELSE [cells |-> cs, cursor |-> tl[Len(tl)], tail |-> tl,
          ret |-> FALSE, dest |-> NoDir, panic |-> FALSE]

\* variant: completion puts the cursor back onto the tail
Backtrack_Reseed(cs, cur, tl) ==
    IF Len(tl) = 0
    THEN [cells |-> cs, cursor |-> cur, tail |-> <<cur>>, ret |-> TRUE,
          dest |-> NoDir, panic |-> FALSE]
    ELSE [cells |-> cs, cursor |-> tl[Len(tl)], tail |-> SubSeq(tl, 1, Len(tl) - 1),
          ret |-> FALSE, dest |-> NoDir, panic |-> FALSE]

\* variant: the pop that empties the tail already reports completion
Backtrack_TrueOnLast(cs, cur, tl) ==
    IF Len(tl) = 0
    THEN [cells |-> cs, cursor |-> cur, tail |-> tl, ret |-> TRUE,
          dest |-> NoDir, panic |-> FALSE]
    ELSE [cells |-> cs, cursor |-> tl[Len(tl)], tail |-> SubSeq(tl, 1, Len(tl) - 1),
          ret |-> (Len(tl) = 1), dest |-> NoDir, panic |-> FALSE]

\* variant: the cursor goes to the entry below the popped one
Backtrack_CursorBelow(cs, cur, tl) ==
    IF Len(tl) = 0
    THEN [cells |-> cs, cursor |-> cur, tail |-> tl, ret |-> TRUE,
          dest |-> NoDir, panic |-> FALSE]
    ELSE [cells |-> cs, cursor |-> IF Len(tl) > 1 THEN tl[Len(tl) - 1] ELSE tl[1],
          tail |-> SubSeq(tl, 1, Len(tl) - 1),
          ret |-> FALSE, dest |-> NoDir, panic |-> FALSE]

\* match self.tail.pop() { None => return true, Some(pos) => cursor = pos }
Backtrack(cs, cur, tl) ==
    IF Len(tl) = 0
    THEN [cells |-> cs, cursor |-> cur, tail |-> tl, ret |-> TRUE,
          dest |-> NoDir, panic |-> FALSE]
    ELSE [cells |-> cs, cursor |-> tl[Len(tl)], tail |-> SubSeq(tl, 1, Len(tl) - 1),
          ret |-> FALSE, dest |-> NoDir, panic |-> FALSE]

\* ------------------------------------------------------- Maze::gen_step
\* match dest { .. } for the value d the scan left in dest
Resolve(w, cs, cur, tl, d) ==
    IF d = Panic
    THEN [cells |-> cs, cursor |-> cur, tail |-> tl, ret |-> FALSE,
          dest |-> NoDir, panic |-> TRUE]
    ELSE IF d = NoDir THEN Backtrack(cs, cur, tl)
    ELSE Forward(w, cs, cur, tl, d)

\* The whole call for one shuffle outcome.
gen_step(w, h, cs, cur, tl, perm) ==
    Resolve(w, cs, cur, tl, Scan(w, h, cs, cur, perm))

\* ------------------------------------------------------- Maze::generate
Limits == {NoLimit} \cup (0..MaxLimit)

\* for _ in 0..limit.unwrap_or(usize::MAX): is there an i-th iteration?
\* usize::MAX is beyond every count the model reaches.
\* variant: an inclusive range, 0..=limit
LoopContinues_Inclusive(limit, i) == limit = NoLimit \/ i <= limit

LoopContinues(limit, i) == limit = NoLimit \/ i < limit

\* ------------------------------------------------------------------ state
VARIABLES
    width, height,      \* Maze.width, Maze.height
    cells,              \* Maze.cells
    cursor,             \* Maze.cursor
    tail,               \* Maze.tail
    panicked,           \* the program has panicked
    ret,                \* result of the latest gen_step call
    dest,               \* `dest` of the latest gen_step call
    calls,              \* gen_step calls up to and including the first `true`
    completed,          \* some gen_step call has returned true
    after,              \* gen_step calls made after completion (saturating)
    gen_pc,             \* "none" | "loop" (inside generate) | "done" (returned)
    gen_limit,          \* argument of the latest generate call
    gen_i,              \* iterations of the for loop that ran to their end
    gen_ret,            \* result of the latest generate call
    got                 \* latest get_cell call: arguments, outcome, result

mazeVars == <<width, height, cells, cursor, tail, panicked>>
histVars == <<ret, dest, calls, completed, after>>
vars == <<width, height, cells, cursor, tail, panicked, ret, dest, calls,
          completed, after, gen_pc, gen_limit, gen_i, gen_ret, got>>

\* no get_cell call made yet
NoCall == [x |-> 0, y |-> 0, status |-> "none", cell |-> DefaultCell]

\* ------------------------------------------- Maze::new / Maze::from_seed
\* Both constructors build the same grid, cursor and tail; they differ in
\* the generator only. this.cells[0] panics on an empty store.
\* variant: the tail starts empty
New_EmptyTail(w, h) ==
    /\ width = w
    /\ height = h
    /\ cursor = Position(0, 0)
    /\ tail = <<>>
    /\ IF InStore(NewCells(w, h), 0)
       THEN /\ cells = [NewCells(w, h) EXCEPT ![0].visited = TRUE]
            /\ panicked = FALSE
       ELSE /\ cells = NewCells(w, h)
            /\ panicked = TRUE
    /\ ret = FALSE
    /\ dest = NoDir
    /\ calls = 0
    /\ completed = FALSE
    /\ after = 0
    /\ gen_pc = "none"
    /\ gen_limit = NoLimit
    /\ gen_i = 0
    /\ gen_ret = FALSE
    /\ got = NoCall

New(w, h) ==
    /\ width = w
    /\ height = h
    /\ cursor = Position(0, 0)
    /\ tail = <<Position(0, 0)>>
    /\ IF InStore(NewCells(w, h), 0)
       THEN /\ cells = [NewCells(w, h) EXCEPT ![0].visited = TRUE]
            /\ panicked = FALSE
       ELSE /\ cells = NewCells(w, h)
            /\ panicked = TRUE
    /\ ret = FALSE
    /\ dest = NoDir
    /\ calls = 0
    /\ completed = FALSE
    /\ after = 0
    /\ gen_pc = "none"
    /\ gen_limit = NoLimit
    /\ gen_i = 0
    /\ gen_ret = FALSE
    /\ got = NoCall

Init == \E w \in 0..MaxW, h \in 0..MaxH : New(w, h)

\* ---------------------------------------------------------------- actions
\* The effect of one gen_step call on the maze and on the history. The
\* shuffle outcome acts through the value d it leaves in dest only, so the
\* call is taken once for each such value.
DoStep(d) ==
    LET r == Resolve(width, cells, cursor, tail, d)
    IN  /\ cells' = r.cells
        /\ cursor' = r.cursor
        /\ tail' = r.tail
        /\ panicked' = r.panic
        /\ ret' = r.ret
        /\ dest' = r.dest
        /\ calls' = IF completed \/ calls >= CallCap THEN calls ELSE calls + 1
        /\ completed' = (completed \/ r.ret)
        /\ after' = IF completed /\ after < MaxAfter THEN after + 1 ELSE after
        /\ UNCHANGED <<width, height, got>>

\* a direct call of gen_step
GenStep ==
    /\ ~panicked
    /\ gen_pc # "loop"
    /\ \E d \in ScanOutcomes(width, height, cells, cursor) : DoStep(d)
    /\ gen_pc' = "none"
    /\ gen_limit' = NoLimit
    /\ gen_i' = 0
    /\ gen_ret' = FALSE

\* entry of generate(limit)
GenerateCall(limit) ==
    /\ ~panicked
    /\ gen_pc # "loop"
    /\ gen_pc' = "loop"
    /\ gen_limit' = limit
    /\ gen_i' = 0
    /\ gen_ret' = FALSE
    /\ UNCHANGED <<mazeVars, histVars, got>>

\* one iteration of the loop: if self.gen_step() { return true; }
GenerateIter ==
    /\ ~panicked
    /\ gen_pc = "loop"
    /\ LoopContinues(gen_limit, gen_i)
    /\ \E d \in ScanOutcomes(width, height, cells, cursor) : DoStep(d)
    /\ IF ret'
       THEN gen_pc' = "done" /\ gen_ret' = TRUE /\ gen_i' = gen_i
       ELSE gen_pc' = "loop" /\ gen_ret' = FALSE /\ gen_i' = gen_i + 1
    /\ UNCHANGED gen_limit

\* the loop is exhausted: the trailing `false`
GenerateExhausted ==
    /\ ~panicked
    /\ gen_pc = "loop"
    /\ ~LoopContinues(gen_limit, gen_i)
    /\ gen_pc' = "done"
    /\ gen_ret' = FALSE
    /\ UNCHANGED <<mazeVars, histVars, gen_limit, gen_i, got>>

Generate == \E limit \in Limits : GenerateCall(limit)

Next == GenStep \/ Generate \/ GenerateIter \/ GenerateExhausted

Spec == Init /\ [][Next]_vars

\* ------------------------------------------------------ cell accessor
\* a call of get_cell(x, y) between two generation calls
GetCellAt(x, y) ==
    /\ ~panicked
    /\ gen_pc # "loop"
    /\ LET r == get_cell(width, cells, x, y)
       IN  /\ got' = [x |-> x, y |-> y, status |-> r.status, cell |-> r.cell]
           /\ panicked' = (r.status = Panic)
    /\ UNCHANGED <<width, height, cells, cursor, tail, histVars,
                   gen_pc, gen_limit, gen_i, gen_ret>>

GetCell == \E x \in 0..MaxW, y \in 0..MaxH : GetCellAt(x, y)

\* gen_step and get_cell calls in any order
NextG == GenStep \/ GetCell

SpecG == Init /\ [][NextG]_vars

\* ---------------------------------------------------- scenario C (5 x 5)
\* generate(None) on a freshly built 5 x 5 maze (and again once finished)
InitC == New(ScenarioC[1], ScenarioC[2])

GenerateNone == GenerateCall(NoLimit)

NextC == GenerateNone \/ GenerateIter

SpecC == InitC /\ [][NextC]_vars


\* ------------------------------------------------- the maze as a graph
Offsets == DOMAIN cells

XOf(o) == o % width
YOf(o) == o \div width

AllVisited == \A o \in Offsets : cells[o].visited

VisitedCount == Cardinality({o \in Offsets : cells[o].visited})

\* cleared wall flags, each right / bottom flag counted once
ClearedCount ==
    Cardinality({o \in Offsets : ~cells[o].right})
      + Cardinality({o \in Offsets : ~cells[o].bottom})

\* the cells joined to cell o by a cleared wall
Adj(o) ==
    {n \in Offsets :
        \/ n = o + 1 /\ XOf(o) < width - 1 /\ ~cells[o].right
        \/ n = o - 1 /\ XOf(o) > 0 /\ ~cells[n].right
        \/ n = o + width /\ ~cells[o].bottom
        \/ n = o - width /\ ~cells[n].bottom}

\* flood fill over cleared walls
RECURSIVE Flood(_, _)
Flood(seen, frontier) ==
    IF frontier = {} THEN seen
    ELSE LET nxt == UNION {Adj(o) : o \in frontier} \ seen
         IN  Flood(seen \cup nxt, nxt)

Connected == Flood({0}, {0}) = Offsets

\* what is left after removing, again and again, the cells with at most one
\* remaining neighbour: empty exactly when the graph has no cycle
RECURSIVE Strip(_)
Strip(S) ==
    LET leaves == {o \in S : Cardinality(Adj(o) \cap S) <= 1}
    IN  IF leaves = {} THEN S ELSE Strip(S \ leaves)

Acyclic == Strip(Offsets) = {}

\* ------------------------------------------------------------------ claims

\* C1 -- Full coverage: whenever a gen_step call has returned true, every
\* one of the width*height cells has visited = true.
C1_FullCoverage == ret => AllVisited

C1_Witness == ret /\ width = MaxW /\ height = MaxH /\ AllVisited

\* C2 -- Spanning tree: once gen_step has returned true, exactly
\* width*height - 1 wall flags are cleared and the graph of cleared walls is
\* connected and acyclic.
C2_SpanningTree ==
    ret => /\ ClearedCount = width * height - 1
           /\ Connected
           /\ Acyclic

C2_Witness == ret /\ width >= 2 /\ height >= 2 /\ ClearedCount = width * height - 1

\* C3 -- Termination: the gen_step calls up to the first one that returns
\* true number at most 2*width*height, an unbounded generate never runs more
\* than 2*width*height - 1 iterations that return false, and it returns true.
C3_Termination ==
    ~panicked =>
        /\ calls <= 2 * width * height
        /\ (gen_limit = NoLimit /\ gen_pc = "loop" => gen_i < 2 * width * height)
        /\ (gen_limit = NoLimit /\ gen_pc = "done" => gen_ret)

C3_Witness ==
    /\ gen_pc = "done" /\ gen_limit = NoLimit /\ gen_ret
    /\ width = MaxW /\ height = MaxH
    /\ gen_i = 2 * width * height - 1

\* C4 -- Boundary invariant: in every state every cell of the rightmost
\* column has right = true and every cell of the bottom row has bottom =
\* true.
C4_Boundary ==
    \A o \in Offsets :
        /\ (XOf(o) = width - 1 => cells[o].right)
        /\ (YOf(o) = height - 1 => cells[o].bottom)

C4_Witness ==
    /\ completed /\ width >= 2 /\ height >= 2
    /\ cells[get_cell_offset(width, width - 1, height - 1)].visited
    /\ ~cells[get_cell_offset(width, width - 2, height - 1)].right

\* C5 -- Idempotent completion: once a gen_step call has returned true,
\* every later call returns true and leaves cells, cursor and tail
\* unchanged.
C5_Idempotent ==
    [][completed => (ret' /\ UNCHANGED <<cells, cursor, tail>>)]_vars

C5_Witness == completed /\ ret /\ after = MaxAfter /\ width >= 2

\* C7 -- generate(limit): at most `limit` gen_step calls, stopping at the
\* first one that returns true and then returning true; otherwise false
\* after exactly `limit` calls.
GenCalls == gen_i + (IF gen_ret THEN 1 ELSE 0)

\* C7 as stated: a false result comes with generation still incomplete.
C7_Original ==
    /\ (gen_pc = "loop" /\ gen_i > 0 => ~ret)
    /\ (gen_pc = "done" =>
          /\ (gen_limit # NoLimit => GenCalls <= gen_limit)
          /\ (gen_ret => ret)
          /\ (~gen_ret => gen_limit # NoLimit /\ GenCalls = gen_limit /\ ~completed))

\* C7 (amended) -- as C7, but a false result says only that none of the
\* `limit` calls returned true: with limit = 0 generate returns false on a
\* maze that is already complete.
C7_Generate ==
    /\ (gen_pc = "loop" /\ gen_i > 0 => ~ret)
    /\ (gen_pc = "done" =>
          /\ (gen_limit # NoLimit => GenCalls <= gen_limit)
          /\ (gen_ret => ret)
          /\ (~gen_ret => /\ gen_limit # NoLimit
                          /\ GenCalls = gen_limit
                          /\ (gen_limit > 0 => ~ret /\ ~completed)))

C7_Witness ==
    /\ gen_pc = "done" /\ ~gen_ret /\ gen_limit = MaxLimit /\ gen_i = MaxLimit
    /\ ~completed /\ VisitedCount > 1

\* C8 as stated: a gen_step call returns true exactly when the tail is
\* empty once the call has finished.
C8_Original == calls > 0 => (ret <=> Len(tail) = 0)

\* a step of the model in which gen_step runs
StepTaken ==
    \/ gen_pc' = "none"
    \/ gen_pc = "loop" /\ LoopContinues(gen_limit, gen_i)

\* C8 (amended) -- a gen_step call returns true exactly when the tail was
\* already empty before the call and no direction was selected; the tail is
\* then empty after the call too, but the call that empties the tail
\* returns false.
C8_StepResult ==
    [][StepTaken /\ ~panicked' =>
          /\ (ret' <=> (Len(tail) = 0 /\ dest' = NoDir))
          /\ (ret' => Len(tail') = 0)]_vars

C8_Witness == calls > 0 /\ ~ret /\ Len(tail) = 0 /\ dest = NoDir /\ width >= 2

\* C9 as stated: on the 5 x 5 maze generate(None) returns true within 49
\* gen_step calls, 24 walls cleared, all 25 cells visited.
C9_Original ==
    gen_pc = "done" =>
        /\ gen_ret
        /\ calls <= 49
        /\ ClearedCount = 24
        /\ AllVisited

\* C9 (amended) -- on the 5 x 5 maze generate(None) returns true on the
\* 50th gen_step call, never earlier, with exactly 24 walls cleared, all 25
\* cells visited and every cell reached from (0,0) over cleared walls.
C9_ScenarioC ==
    /\ calls <= 50
    /\ (gen_pc = "done" =>
          /\ gen_ret
          /\ calls = 50
          /\ ClearedCount = 24
          /\ VisitedCount = 25
          /\ Connected)

C9_Witness ==
    /\ gen_pc = "done" /\ gen_ret /\ after = 0 /\ gen_i = 49
    /\ width = 5 /\ height = 5

\* C10 -- Scenario B (2 x 1): the only forward move is Right from (0,0);
\* the first gen_step call that returns true is the 4th; then (0,0) has
\* right = false, (1,0) has right = true, both cells are visited and keep
\* bottom = true.
C10_ScenarioB ==
    width = 2 /\ height = 1 =>
        /\ dest \in {NoDir, "Right"}
        /\ (dest = "Right" => cursor = Position(1, 0) /\ calls = 1)
        /\ calls <= 4
        /\ (completed <=> calls = 4)
        /\ (gen_limit = NoLimit /\ gen_pc = "done" => gen_ret)
        /\ (completed =>
              /\ cells[0] = [visited |-> TRUE, right |-> FALSE, bottom |-> TRUE]
              /\ cells[1] = [visited |-> TRUE, right |-> TRUE, bottom |-> TRUE])

C10_Witness ==
    /\ width = 2 /\ height = 1
    /\ gen_pc = "done" /\ gen_limit = NoLimit /\ gen_ret /\ gen_i = 3 /\ calls = 4

\* C11 -- Construction accepts a zero dimension: with width = 0 or height
\* = 0 the constructors succeed and yield a maze with an empty cell store.
C11_ZeroDimension ==
    (width = 0 \/ height = 0) => ~panicked /\ Offsets = {}

\* C12 -- Out-of-bounds cell access fails loudly: get_cell(x, y) with
\* x >= width or y >= height panics, and a call that returns a cell has
\* 0 <= x < width, 0 <= y < height and returns the cell at (x, y).
C12_OutOfBounds ==
    /\ (got.status # "none" /\ (got.x >= width \/ got.y >= height)
          => got.status = Panic)
    /\ (got.status = "ok" => got.x < width /\ got.y < height)

\* ---------------------------------------------- the grid, by coordinates
InGrid(pos) == pos.x \in 0..(width - 1) /\ pos.y \in 0..(height - 1)

OffsetOf(pos) == pos.x + pos.y * width

\* the neighbour of pos in direction d
Toward(d, pos) ==
    CASE d = "Left" -> Position(pos.x - 1, pos.y)
      [] d = "Right" -> Position(pos.x + 1, pos.y)
      [] d = "Top" -> Position(pos.x, pos.y - 1)
      [] d = "Bottom" -> Position(pos.x, pos.y + 1)

\* the neighbour of the cursor in direction d is inside the grid and not
\* yet visited
Qualifies(d) ==
    LET n == Toward(d, cursor)
    IN  InGrid(n) /\ ~cells[OffsetOf(n)].visited

NoneQualifies == \A d \in Directions : ~Qualifies(d)

\* the earliest qualifying direction of a permutation, NoDir without one
Earliest(perm) ==
    IF \E i \in 1..4 : Qualifies(perm[i])
    THEN perm[CHOOSE i \in 1..4 :
                  Qualifies(perm[i]) /\ \A j \in 1..(i - 1) : ~Qualifies(perm[j])]
    ELSE NoDir

\* C13 -- Direction selection: for every shuffle outcome gen_step selects
\* the earliest direction of the permutation whose neighbour is inside the
\* grid and unvisited, and selects none exactly when no direction has such
\* a neighbour; a forward move enters an in-grid, unvisited cell.
C13_Selection ==
    [][StepTaken /\ ~panicked' =>
          /\ \A perm \in Perms :
                gen_step(width, height, cells, cursor, tail, perm).dest = Earliest(perm)
          /\ \E perm \in Perms : dest' = Earliest(perm)
          /\ (dest' = NoDir <=> NoneQualifies)
          /\ (dest' # NoDir => Qualifies(dest') /\ cursor' = Toward(dest', cursor))]_vars

C13_Witness ==
    /\ dest = "Top" /\ cursor.x > 0 /\ cursor.x < width - 1
    /\ ~cells[OffsetOf(Toward("Left", cursor))].visited

\* the cell owning the wall crossed by a move in direction d from pos: the
\* left / upper cell of the edge
EdgeOwner(d, pos) ==
    CASE d = "Right" -> pos
      [] d = "Left" -> Position(pos.x - 1, pos.y)
      [] d = "Bottom" -> pos
      [] d = "Top" -> Position(pos.x, pos.y - 1)

\* C14 -- Forward move effect: a forward move from (x, y) clears exactly
\* one wall flag, the one owned by the left / upper cell of the crossed
\* edge, sets visited on the destination, moves the cursor there, pushes it
\* onto the tail and returns false; every other flag is unchanged.
C14_ForwardEffect ==
    [][StepTaken /\ dest' # NoDir /\ ~panicked' =>
          LET new == Toward(dest', cursor)
              own == OffsetOf(EdgeOwner(dest', cursor))
              horizontal == dest' \in {"Left", "Right"}
          IN  /\ cursor' = new
              /\ tail' = Append(tail, new)
              /\ ~ret'
              /\ IF horizontal THEN cells[own].right ELSE cells[own].bottom
              /\ ~cells[OffsetOf(new)].visited
              /\ cells' = [o \in Offsets |->
                    [visited |-> cells[o].visited \/ o = OffsetOf(new),
                     right |-> cells[o].right /\ ~(o = own /\ horizontal),
                     bottom |-> cells[o].bottom /\ ~(o = own /\ ~horizontal)]]]_vars

C14_Witness ==
    /\ dest = "Left" /\ ~cells[OffsetOf(cursor)].right
    /\ cells[OffsetOf(cursor)].bottom /\ ClearedCount >= 3

\* C15 -- Dead-end step: when no direction qualifies and the tail is
\* non-empty, gen_step removes exactly the top tail entry, sets the cursor
\* to it, returns false and changes no cell flag; the tail grows only by a
\* forward move (by one) and shrinks only by such a pop (by one).
C15_DeadEnd ==
    [][/\ (StepTaken /\ ~panicked' /\ NoneQualifies /\ Len(tail) > 0 =>
              /\ tail' = SubSeq(tail, 1, Len(tail) - 1)
              /\ cursor' = tail[Len(tail)]
              /\ ~ret'
              /\ cells' = cells)
       /\ (Len(tail') > Len(tail) =>
              StepTaken /\ dest' # NoDir /\ Len(tail') = Len(tail) + 1)
       /\ (Len(tail') < Len(tail) =>
              StepTaken /\ dest' = NoDir /\ Len(tail') = Len(tail) - 1)
       /\ (StepTaken /\ dest' # NoDir /\ ~panicked' => Len(tail') = Len(tail) + 1)]_vars

C15_Witness ==
    /\ calls > 0 /\ dest = NoDir /\ ~ret /\ Len(tail) >= 1
    /\ cursor # tail[Len(tail)] /\ cursor # Position(0, 0)

\* C16 -- Tail bottom invariant: while the tail is non-empty its bottom
\* entry is the start position (0,0); no forward move is made while the
\* tail is empty, so an emptied tail never regrows.
C16_TailBottom ==
    [][/\ (Len(tail) > 0 => tail[1] = Position(0, 0))
       /\ (Len(tail') > 0 => tail'[1] = Position(0, 0))
       /\ (Len(tail) = 0 => Len(tail') = 0)
       /\ (StepTaken /\ dest' # NoDir => Len(tail) > 0)]_vars

C16_Witness ==
    /\ Len(tail) = 1 /\ tail[1] = Position(0, 0) /\ calls > 0
    /\ cursor # Position(0, 0) /\ VisitedCount >= 4

TailOffsets == {OffsetOf(tail[i]) : i \in 1..Len(tail)}

\* C17 as stated: every two consecutive tail entries are orthogonally
\* adjacent cells whose shared wall has been cleared.
C17_Original ==
    \A i \in 1..(Len(tail) - 1) :
        /\ InGrid(tail[i]) /\ InGrid(tail[i + 1])
        /\ OffsetOf(tail[i + 1]) \in Adj(OffsetOf(tail[i]))

\* flood fill over cleared walls through the cells of `allowed` only
RECURSIVE FloodIn(_, _, _)
FloodIn(seen, frontier, allowed) ==
    IF frontier = {} THEN seen
    ELSE LET nxt == (UNION {Adj(o) : o \in frontier} \cap allowed) \ seen
         IN  FloodIn(seen \cup nxt, nxt, allowed)

\* C17 (amended) -- every two consecutive tail entries are distinct visited
\* grid cells joined by a carved path, of one or more cleared walls, whose
\* intermediate cells are cells no longer on the tail; no cell is on the
\* tail twice.
C17_TailChain ==
    ~panicked =>
        /\ Cardinality(TailOffsets) = Len(tail)
        /\ \A i \in 1..(Len(tail) - 1) :
              LET a == OffsetOf(tail[i])
                  b == OffsetOf(tail[i + 1])
              IN  /\ InGrid(tail[i]) /\ InGrid(tail[i + 1])
                  /\ a # b
                  /\ cells[a].visited /\ cells[b].visited
                  /\ b \in FloodIn({a}, {a}, (Offsets \ TailOffsets) \cup {b})

C17_Witness ==
    \E i \in 1..(Len(tail) - 1) :
        /\ OffsetOf(tail[i + 1]) \notin Adj(OffsetOf(tail[i]))
        /\ Len(tail) >= 3

\* C18 -- Cursor validity (width, height >= 1): the cursor is inside the
\* grid on a visited cell, every tail entry is an in-grid visited position,
\* and gen_step never panics.
C18_CursorValid ==
    width >= 1 /\ height >= 1 =>
        /\ ~panicked
        /\ InGrid(cursor)
        /\ cells[OffsetOf(cursor)].visited
        /\ \A i \in 1..Len(tail) :
              InGrid(tail[i]) /\ cells[OffsetOf(tail[i])].visited

C18_Witness ==
    /\ width >= 2 /\ height >= 2 /\ calls > 0
    /\ cursor = Position(width - 1, height - 1)
    /\ Len(tail) >= 2

\* C19 -- Exact step count (width, height >= 1): the first gen_step call
\* that returns true is call number 2*width*height, after width*height - 1
\* forward moves; on a 1 x 1 maze the first call returns false, empties the
\* tail and leaves cursor and cell unchanged, the second returns true.
C19_StepCount ==
    width >= 1 /\ height >= 1 =>
        /\ calls <= 2 * width * height
        /\ (completed <=> calls = 2 * width * height)
        /\ (completed => VisitedCount = width * height
                           /\ ClearedCount = width * height - 1)
        /\ (width = 1 /\ height = 1 /\ calls = 1 =>
              /\ ~ret
              /\ tail = <<>>
              /\ cursor = Position(0, 0)
              /\ cells[0] = [visited |-> TRUE, right |-> TRUE, bottom |-> TRUE])

C19_Witness ==
    /\ completed /\ width = MaxW /\ height = MaxH
    /\ calls = 2 * width * height /\ after = 0

\* what C20 says of one state
PartialTree ==
    /\ ClearedCount = VisitedCount - 1
    /\ \A o \in Offsets :
          /\ (~cells[o].right =>
                XOf(o) < width - 1 /\ cells[o].visited /\ cells[o + 1].visited)
          /\ (~cells[o].bottom =>
                YOf(o) < height - 1 /\ cells[o].visited /\ cells[o + width].visited)
    /\ Flood({0}, {0}) = {o \in Offsets : cells[o].visited}

\* no visited flag is reset, no cleared wall is set again
FlagsMonotone ==
    \A o \in Offsets :
        /\ (cells[o].visited => cells'[o].visited)
        /\ (~cells[o].right => ~cells'[o].right)
        /\ (~cells[o].bottom => ~cells'[o].bottom)

\* C20 -- Partial maze is always a tree: in every state the cleared wall
\* flags number the visited cells minus one, every cleared wall joins two
\* visited cells, the visited cells are those reached from (0,0) over
\* cleared walls, and no visited flag is reset nor a cleared wall set again.
C20_PartialTree ==
    /\ [](width >= 1 /\ height >= 1 => PartialTree)
    /\ [][FlagsMonotone]_vars

C20_Witness ==
    /\ ~completed /\ dest = NoDir /\ calls > 0
    /\ VisitedCount >= 3 /\ VisitedCount < width * height
    /\ Len(tail) >= 1

====
